---- MODULE Spec2Model ----
(***************************************************************************)
(* A model of the blurhash codec in src/blurhash/blurhash.py: the base-83  *)
(* integer codec, the sRGB <-> linear conversions, the metadata reader,    *)
(* the encoder and the two decoders (dense and swatch).                    *)
(*                                                                         *)
(* The module's functions are pure, so a behaviour is one call: Init draws *)
(* the operation and its arguments, and the operation's action runs the    *)
(* whole function and records what it returned or raised, together with    *)
(* the locals it had assigned by then.                                     *)
(*                                                                         *)
(* Numbers.  Python ints are modelled by integers.  Python floats that     *)
(* carry colour, cosine and coefficient values are modelled in fixed point *)
(* with Scale units per 1.0 (a value v is the integer nearest v * Scale);  *)
(* math.pow with the exponents 2.4 and 1/2.4 is tabulated at that          *)
(* resolution.  The floats of the swatch decoder's tile geometry, whose    *)
(* last bit decides what int() returns, are modelled bit for bit as        *)
(* IEEE-754 binary64 values (the F... operators below).                    *)
(***************************************************************************)
EXTENDS Integers, Sequences, FiniteSets

(***************************************************************************)
(* Bounds of the model.                                                    *)
(***************************************************************************)
\* base83_encode / base83_decode are called with lengths 1..MaxLength.
MaxLength == 3
\* base83_encode is called with the values 0..MaxValue and with the values
\* within MaxValue of a power of 83.
MaxValue == 90

(***************************************************************************)
(* Fixed point.                                                            *)
(***************************************************************************)
Scale == 100 * 100

Max(a, b) == IF a >= b THEN a ELSE b

Min(a, b) == IF a <= b THEN a ELSE b

Abs(a) == IF a < 0 THEN -a ELSE a

\* a * b of two fixed-point numbers.
MulFx(a, b) == (a * b) \div Scale

RECURSIVE Pow83(_)
Pow83(n) == IF n = 0 THEN 1 ELSE 83 * Pow83(n - 1)

(***************************************************************************)
(* Exceptions.  The code raises ValueError with a message for its own      *)
(* checks; KeyError comes from the alphabet_values lookup and IndexError   *)
(* from indexing a string past its end.                                    *)
(***************************************************************************)
NoError == "none"

\* ValueError("Specified length is too short to encode given value.")
EncodingOverflow == "EncodingOverflow"

\* ValueError("x and y component counts must be between 1 and 9 inclusive.")
InvalidComponentCount == "InvalidComponentCount"

\* ValueError("BlurHash must be at least 6 characters long.") and
\* ValueError("Invalid BlurHash length.")
InvalidHashLength == "InvalidHashLength"

\* KeyError: alphabet_values[c] for a character c outside the alphabet.
InvalidSymbol == "InvalidSymbol"

\* IndexError: blurhash[0] or blurhash[1] past the end of the string.
IndexError == "IndexError"

\* ZeroDivisionError: float division by 0.0.
ZeroDivisionError == "ZeroDivisionError"

(***************************************************************************)
(* Base-83 codec.  A string is a sequence of one-character strings.        *)
(***************************************************************************)
alphabet ==
    <<"0", "1", "2", "3", "4", "5", "6", "7", "8", "9", "A", "B",
      "C", "D", "E", "F", "G", "H", "I", "J", "K", "L", "M", "N",
      "O", "P", "Q", "R", "S", "T", "U", "V", "W", "X", "Y", "Z",
      "a", "b", "c", "d", "e", "f", "g", "h", "i", "j", "k", "l",
      "m", "n", "o", "p", "q", "r", "s", "t", "u", "v", "w", "x",
      "y", "z", "#", "$", "%", "*", "+", ",", "-", ".", ":", ";",
      "=", "?", "@", "[", "]", "^", "_", "{", "|", "}", "~">>

Symbols == {alphabet[i] : i \in 1..Len(alphabet)}

alphabet_values ==
    [c \in Symbols |-> (CHOOSE i \in 1..Len(alphabet) : alphabet[i] = c) - 1]

\* Every character of s is a key of alphabet_values.
AllSymbols(s) == \A k \in 1..Len(s) : s[k] \in Symbols

\* The loop of base83_decode over the first n characters of base83_str.
RECURSIVE base83_decode_loop(_, _)
base83_decode_loop(base83_str, n) ==
    IF n = 0
    THEN 0
    ELSE base83_decode_loop(base83_str, n - 1) * 83 + alphabet_values[base83_str[n]]

\* base83_decode of a string of alphabet characters.
base83_decode(base83_str) == base83_decode_loop(base83_str, Len(base83_str))

\* What a call returned or raised.
Return(v) == [err |-> NoError, val |-> v]

Raise(kind) == [err |-> kind, val |-> <<>>]

\* The digit of iteration i had the loop run from the least significant
\* digit: the variant C1 is compared with.
base83_digit_lsb_first(value, length, i) == (value \div Pow83(i - 1)) % 83

\* The digit base83_encode appends in iteration i of its loop.
base83_digit(value, length, i) == (value \div Pow83(length - i)) % 83

base83_encode(value, length) ==
    IF value \div Pow83(length) # 0
    THEN Raise(EncodingOverflow)
    ELSE Return([i \in 1..length |-> alphabet[base83_digit(value, length, i) + 1]])

(***************************************************************************)
(* Colour conversions.                                                     *)
(***************************************************************************)
\* math.pow((b / 255.0 + 0.055) / 1.055, 2.4) for the bytes b = 11..255, in
\* fixed point (entry b - 10).
GammaExpandTable ==
    <<33, 37, 40, 44, 48, 52, 56, 60, 65, 70, 75, 80, 86, 91,
      97, 103, 110, 116, 123, 130, 137, 144, 152, 160, 168, 176, 185, 194,
      203, 212, 222, 232, 242, 252, 262, 273, 284, 296, 307, 319, 331, 343,
      356, 369, 382, 395, 409, 423, 437, 452, 467, 482, 497, 513, 529, 545,
      561, 578, 595, 612, 630, 648, 666, 685, 704, 723, 742, 762, 782, 802,
      823, 844, 865, 887, 908, 931, 953, 976, 999, 1022, 1046, 1070, 1095, 1119,
      1144, 1170, 1195, 1221, 1248, 1274, 1301, 1329, 1356, 1384, 1413, 1441, 1470, 1500,
      1529, 1559, 1590, 1620, 1651, 1683, 1714, 1746, 1779, 1812, 1845, 1878, 1912, 1946,
      1981, 2016, 2051, 2086, 2122, 2159, 2195, 2232, 2270, 2307, 2346, 2384, 2423, 2462,
      2502, 2542, 2582, 2623, 2664, 2705, 2747, 2789, 2831, 2874, 2918, 2961, 3005, 3050,
      3095, 3140, 3185, 3231, 3278, 3325, 3372, 3419, 3467, 3515, 3564, 3613, 3663, 3712,
      3763, 3813, 3864, 3916, 3968, 4020, 4072, 4125, 4179, 4233, 4287, 4342, 4397, 4452,
      4508, 4564, 4621, 4678, 4735, 4793, 4851, 4910, 4969, 5029, 5089, 5149, 5210, 5271,
      5333, 5395, 5457, 5520, 5583, 5647, 5711, 5776, 5841, 5906, 5972, 6038, 6105, 6172,
      6240, 6308, 6376, 6445, 6514, 6584, 6654, 6724, 6795, 6867, 6939, 7011, 7084, 7157,
      7231, 7305, 7379, 7454, 7529, 7605, 7682, 7758, 7835, 7913, 7991, 8070, 8148, 8228,
      8308, 8388, 8469, 8550, 8632, 8714, 8796, 8879, 8963, 9047, 9131, 9216, 9301, 9387,
      9473, 9560, 9647, 9734, 9823, 9911, 10000>>

\* For b = 11..255 (entry b - 10): the least fixed-point v with
\* int((1.055 * math.pow(v, 1 / 2.4) - 0.055) * 255 + 0.5) >= b.
GammaCompressThreshold ==
    <<32, 36, 39, 43, 46, 50, 54, 59, 63, 68, 73, 78, 83, 89,
      95, 101, 107, 113, 120, 127, 134, 141, 149, 156, 164, 173, 181, 190,
      199, 208, 217, 227, 237, 247, 258, 268, 279, 290, 302, 314, 325, 338,
      350, 363, 376, 389, 403, 417, 431, 445, 460, 475, 490, 505, 521, 537,
      554, 570, 587, 604, 622, 640, 658, 676, 695, 714, 733, 752, 772, 792,
      813, 834, 855, 876, 898, 920, 942, 965, 988, 1011, 1035, 1059, 1083, 1107,
      1132, 1157, 1183, 1209, 1235, 1262, 1288, 1315, 1343, 1371, 1399, 1427, 1456, 1485,
      1515, 1545, 1575, 1605, 1636, 1667, 1699, 1731, 1763, 1796, 1829, 1862, 1896, 1930,
      1964, 1999, 2034, 2069, 2105, 2141, 2177, 2214, 2251, 2289, 2327, 2365, 2404, 2443,
      2482, 2522, 2562, 2603, 2643, 2685, 2726, 2768, 2811, 2853, 2897, 2940, 2984, 3028,
      3073, 3118, 3163, 3209, 3255, 3302, 3349, 3396, 3444, 3492, 3540, 3589, 3638, 3688,
      3738, 3788, 3839, 3890, 3942, 3994, 4047, 4099, 4153, 4206, 4260, 4315, 4370, 4425,
      4480, 4536, 4593, 4650, 4707, 4765, 4823, 4881, 4940, 5000, 5059, 5119, 5180, 5241,
      5302, 5364, 5426, 5489, 5552, 5616, 5680, 5744, 5809, 5874, 5940, 6006, 6072, 6139,
      6206, 6274, 6342, 6411, 6480, 6549, 6619, 6690, 6760, 6832, 6903, 6975, 7048, 7121,
      7194, 7268, 7342, 7417, 7492, 7568, 7644, 7720, 7797, 7875, 7952, 8031, 8109, 8189,
      8268, 8348, 8429, 8510, 8591, 8673, 8755, 8838, 8921, 9005, 9089, 9174, 9259, 9344,
      9430, 9517, 9604, 9691, 9779, 9867, 9956>>

srgb_to_linear(value) ==
    IF value * 100000 <= 4045 * 255
    THEN (value * Scale * 100) \div (255 * 1292)
    ELSE GammaExpandTable[value - 10]

\* The largest b in lo..hi with GammaCompressThreshold[b - 10] <= v, where
\* lo = 10 stands for "below every threshold".
RECURSIVE GammaCompress(_, _, _)
GammaCompress(v, lo, hi) ==
    IF lo = hi
    THEN lo
    ELSE LET mid == (lo + hi + 1) \div 2
         IN  IF GammaCompressThreshold[mid - 10] <= v
             THEN GammaCompress(v, mid, hi)
             ELSE GammaCompress(v, lo, mid - 1)

\* linear_to_srgb without the "+ 0.5" of its two branches, i.e. truncating:
\* the variant C8 is compared with.
linear_to_srgb_truncating(value) ==
    LET v == Max(0, Min(Scale, value))
    IN  IF v <= (31308 * Scale) \div 10000000
        THEN (v * 1292 * 255) \div (100 * Scale)
        ELSE Max(0, GammaCompress(v, 10, 255) - 1)

linear_to_srgb(value) ==
    LET v == Max(0, Min(Scale, value))
    IN  IF v <= (31308 * Scale) \div 10000000
        THEN (v * 1292 * 255 * 2 + 100 * Scale) \div (100 * Scale * 2)
        ELSE GammaCompress(v, 10, 255)

(***************************************************************************)
(* math.cos, math.pow(., 0.5), math.pow(., 2.0) in fixed point.            *)
(***************************************************************************)
math_pi == (31416 * Scale) \div 10000

\* cos(x) for a fixed-point x in [0, pi/2]: the Taylor polynomial of degree
\* 8 in Horner form.
CosSeries(x) ==
    LET x2 == MulFx(x, x)
        h4 == Scale - x2 \div 56
        h3 == Scale - MulFx(x2, h4) \div 30
        h2 == Scale - MulFx(x2, h3) \div 12
    IN  Scale - MulFx(x2, h2) \div 2

\* math.cos(math.pi * t) for a fixed-point t >= 0: the argument is reduced
\* to a quarter period first.
cos_pi(t) ==
    LET r == t % (2 * Scale)
        m == IF r > Scale THEN 2 * Scale - r ELSE r
    IN  IF 2 * m > Scale
        THEN -CosSeries(MulFx(math_pi, Scale - m))
        ELSE CosSeries(MulFx(math_pi, m))

\* The largest k in lo..hi with k * k <= n (lo * lo <= n is given).
RECURSIVE IsqrtSearch(_, _, _)
IsqrtSearch(n, lo, hi) ==
    IF lo = hi
    THEN lo
    ELSE LET mid == (lo + hi + 1) \div 2
         IN  IF mid * mid <= n
             THEN IsqrtSearch(n, mid, hi)
             ELSE IsqrtSearch(n, lo, mid - 1)

Isqrt(n) == IsqrtSearch(n, 0, 46340)

\* math.pow(a, 0.5) for a fixed-point a >= 0.
SqrtFx(a) ==
    IF a <= 200000 THEN Isqrt(a * Scale) ELSE Isqrt(a) * Isqrt(Scale)

\* a / b of two fixed-point numbers, b > 0.
DivFx(a, b) == (a * Scale) \div b

\* The exponents sign_pow is called with.
ExpHalf == Scale \div 2

ExpTwo == 2 * Scale

sign_pow(value, exp) ==
    LET a == Abs(value)
        p == IF exp = ExpTwo THEN MulFx(a, a) ELSE SqrtFx(a)
    IN  IF value < 0 THEN -p ELSE p

(***************************************************************************)
(* IEEE-754 binary64 arithmetic on non-negative values, as Python's float  *)
(* /, * and + compute it: the exact result rounded to 53 significant bits, *)
(* ties to even.  A significand needs more than the 31 bits of an integer  *)
(* here, so it is a sequence of 15-bit limbs, least significant first,     *)
(* without leading zero limbs; a float is [m |-> significand, e |->        *)
(* exponent] and stands for m * 2^e, with m of exactly 53 bits, or m = <<>>*)
(* for 0.0.                                                                *)
(***************************************************************************)
LimbBits == 15

LimbBase == 2 ^ LimbBits

MantissaBits == 53

RECURSIVE BigFromInt(_)
BigFromInt(n) ==
    IF n = 0 THEN <<>> ELSE <<n % LimbBase>> \o BigFromInt(n \div LimbBase)

RECURSIVE BigToInt(_)
BigToInt(s) ==
    IF s = <<>> THEN 0 ELSE Head(s) + LimbBase * BigToInt(Tail(s))

RECURSIVE BigMulLoop(_, _, _)
BigMulLoop(s, n, carry) ==
    IF s = <<>>
    THEN BigFromInt(carry)
    ELSE LET t == Head(s) * n + carry
         IN  <<t % LimbBase>> \o BigMulLoop(Tail(s), n, t \div LimbBase)

\* s * n for 0 < n <= LimbBase.
BigMulSmall(s, n) == BigMulLoop(s, n, 0)

RECURSIVE BigAddLoop(_, _, _)
BigAddLoop(a, b, carry) ==
    IF a = <<>> /\ b = <<>>
    THEN BigFromInt(carry)
    ELSE LET x == IF a = <<>> THEN 0 ELSE Head(a)
             y == IF b = <<>> THEN 0 ELSE Head(b)
             t == x + y + carry
         IN  <<t % LimbBase>>
                 \o BigAddLoop(IF a = <<>> THEN a ELSE Tail(a),
                               IF b = <<>> THEN b ELSE Tail(b),
                               t \div LimbBase)

BigAdd(a, b) == BigAddLoop(a, b, 0)

\* Quotient and remainder of s by n, 0 < n <= LimbBase.
RECURSIVE BigDivMod(_, _)
BigDivMod(s, n) ==
    IF s = <<>>
    THEN [q |-> <<>>, r |-> 0]
    ELSE LET hi  == BigDivMod(Tail(s), n)
             cur == hi.r * LimbBase + Head(s)
         IN  [q |-> IF hi.q = <<>> /\ cur \div n = 0
                    THEN <<>>
                    ELSE <<cur \div n>> \o hi.q,
              r |-> cur % n]

RECURSIVE BitLength(_)
BitLength(n) == IF n = 0 THEN 0 ELSE 1 + BitLength(n \div 2)

BigBitLength(s) ==
    IF s = <<>> THEN 0 ELSE LimbBits * (Len(s) - 1) + BitLength(s[Len(s)])

RECURSIVE BigShiftLeft(_, _)
BigShiftLeft(s, k) ==
    IF s = <<>> \/ k = 0
    THEN s
    ELSE IF k >= LimbBits
         THEN BigShiftLeft(<<0>> \o s, k - LimbBits)
         ELSE BigMulSmall(s, 2 ^ k)

RECURSIVE BigShiftRight(_, _)
BigShiftRight(s, k) ==
    IF s = <<>> \/ k = 0
    THEN s
    ELSE IF k >= LimbBits
         THEN BigShiftRight(Tail(s), k - LimbBits)
         ELSE BigDivMod(s, 2 ^ k).q

FZero == [m |-> <<>>, e |-> 0]

\* big * 2^e rounded to a float; sticky says that the exact value is
\* larger than big * 2^e by less than one unit of 2^e.  At most LimbBits
\* bits are dropped.
FRound(big, e, sticky) ==
    LET len == BigBitLength(big)
        k   == len - MantissaBits
    IN  IF len = 0
        THEN FZero
        ELSE IF k <= 0
             THEN [m |-> BigShiftLeft(big, -k), e |-> e + k]
             ELSE LET dm   == BigDivMod(big, 2 ^ k)
                      half == 2 ^ (k - 1)
                      odd  == Head(dm.q) % 2 = 1
                      up   == \/ dm.r > half
                              \/ dm.r = half /\ (sticky \/ odd)
                      q    == IF up THEN BigAdd(dm.q, <<1>>) ELSE dm.q
                  IN  IF BigBitLength(q) > MantissaBits
                      THEN [m |-> BigShiftRight(q, 1), e |-> e + k + 1]
                      ELSE [m |-> q, e |-> e + k]

\* The bits of the quotient FDivInt computes before rounding.
QuotientBits == 60

\* a / b for ints 0 <= a, 0 < b <= LimbBase, whose quotient is at least
\* 2^-5 (so that it has more than MantissaBits + 1 bits before rounding).
FDivInt(a, b) ==
    LET dm == BigDivMod(BigShiftLeft(BigFromInt(a), QuotientBits), b)
    IN  FRound(dm.q, -QuotientBits, dm.r # 0)

\* x / 2.
FHalve(x) == IF x.m = <<>> THEN x ELSE [m |-> x.m, e |-> x.e - 1]

\* x * n for an int 0 <= n <= LimbBase.
FMulInt(x, n) ==
    IF n = 0 \/ x.m = <<>> THEN FZero ELSE FRound(BigMulSmall(x.m, n), x.e, FALSE)

\* x + y.
FAdd(x, y) ==
    IF x.m = <<>>
    THEN y
    ELSE IF y.m = <<>>
         THEN x
         ELSE LET e == Min(x.e, y.e)
              IN  FRound(BigAdd(BigShiftLeft(x.m, x.e - e),
                                BigShiftLeft(y.m, y.e - e)), e, FALSE)

\* big * 2^e truncated to an integer.
BigScale(big, e) ==
    BigToInt(IF e >= 0 THEN BigShiftLeft(big, e) ELSE BigShiftRight(big, -e))

\* int(x).
FInt(x) == BigScale(x.m, x.e)

\* x as a fixed-point number.
FToFixed(x) == BigScale(BigMulSmall(x.m, Scale), x.e)

(***************************************************************************)
(* Folds over sequences.                                                   *)
(***************************************************************************)
RECURSIVE SeqSum(_)
SeqSum(s) == IF s = <<>> THEN 0 ELSE Head(s) + SeqSum(Tail(s))

RECURSIVE SeqMax(_)
SeqMax(s) == IF s = <<>> THEN 0 ELSE Max(Head(s), SeqMax(Tail(s)))

RECURSIVE Concat(_)
Concat(ss) == IF ss = <<>> THEN <<>> ELSE Head(ss) \o Concat(Tail(ss))

(***************************************************************************)
(* Hash metadata.                                                          *)
(***************************************************************************)
\* size_y and size_x as the code computes them from blurhash[0].
size_y_of(size_info) == (size_info \div 9) + 1

size_x_of(size_info) == (size_info % 9) + 1

blurhash_components(blurhash) ==
    IF Len(blurhash) = 0
    THEN Raise(IndexError)
    ELSE IF blurhash[1] \notin Symbols
         THEN Raise(InvalidSymbol)
         ELSE LET size_info == base83_decode(<<blurhash[1]>>)
              IN  Return(<<size_x_of(size_info), size_y_of(size_info)>>)

\* real_max_value of the two decoders.
real_max_value_of(quant_max_value, punch) ==
    MulFx(((quant_max_value + 1) * Scale) \div 166, punch)

(***************************************************************************)
(* Coefficient decoding, written twice in the code (blurhash_decode and    *)
(* blurhash_fake_decode) with the same statements.                         *)
(***************************************************************************)
\* The three channel digits the code takes from an AC value.
ac_digits(ac_value) ==
    <<ac_value \div (19 * 19), (ac_value \div 19) % 19, ac_value % 19>>

\* One channel of an AC coefficient from its digit.
ac_channel(digit, real_max_value) ==
    MulFx(sign_pow(((digit - 9) * Scale) \div 9, ExpTwo), real_max_value)

\* The characters blurhash[4 + component * 2 : 4 + (component + 1) * 2].
ac_chars(blurhash, component) ==
    SubSeq(blurhash, 5 + component * 2, 6 + component * 2)

decode_ac(blurhash, component, real_max_value) ==
    LET digits == ac_digits(base83_decode(ac_chars(blurhash, component)))
    IN  [ch \in 1..3 |-> ac_channel(digits[ch], real_max_value)]

decode_dc(blurhash) ==
    LET dc_value == base83_decode(SubSeq(blurhash, 3, 6))
    IN  <<srgb_to_linear(dc_value \div 65536),
          srgb_to_linear((dc_value \div 256) % 256),
          srgb_to_linear(dc_value % 256)>>

\* The number of AC components the loop decodes before base83_decode meets
\* a character outside the alphabet (all of 1..last when none does).
RECURSIVE ac_decoded(_, _, _)
ac_decoded(blurhash, component, last) ==
    IF component > last \/ ~AllSymbols(ac_chars(blurhash, component))
    THEN component - 1
    ELSE ac_decoded(blurhash, component + 1, last)

\* The list colours of a hash whose length check passed: [err, colours],
\* colours holding what was appended before a KeyError.
decode_colours(blurhash, size_x, size_y, real_max_value) ==
    IF ~AllSymbols(SubSeq(blurhash, 3, 6))
    THEN [err |-> InvalidSymbol, colours |-> <<>>]
    ELSE LET last == size_x * size_y - 1
             good == ac_decoded(blurhash, 1, last)
         IN  [err     |-> IF good < last THEN InvalidSymbol ELSE NoError,
              colours |-> <<decode_dc(blurhash)>>
                              \o [c \in 1..good |->
                                    decode_ac(blurhash, c, real_max_value)]]

\* The sum of colour * basis over the component grid at the point whose
\* coordinates are the fixed-point x and y: the loops over j and i.
pixel_at(colours, size_x, size_y, x, y, width, height) ==
    LET cos_x == [i \in 0..(size_x - 1) |-> cos_pi((x * i) \div width)]
        cos_y == [j \in 0..(size_y - 1) |-> cos_pi((y * j) \div height)]
        term(k, ch) ==
            LET i == (k - 1) % size_x
                j == (k - 1) \div size_x
            IN  MulFx(colours[i + j * size_x + 1][ch], MulFx(cos_x[i], cos_y[j]))
    IN  [ch \in 1..3 |-> SeqSum([k \in 1..(size_x * size_y) |-> term(k, ch)])]

to_srgb(pixel) == [ch \in 1..3 |-> linear_to_srgb(pixel[ch])]

(***************************************************************************)
(* The dense decoder.  The record holds the locals at the return or raise; *)
(* a local not assigned by then is 0 or <<>>.                              *)
(***************************************************************************)
DecodeFrame(err, size_x, size_y, real_max_value, colours, val) ==
    [err |-> err, size_x |-> size_x, size_y |-> size_y,
     real_max_value |-> real_max_value, colours |-> colours, val |-> val]

\* The length check had it been "len(blurhash) < 4 + 2 * size_x * size_y":
\* the variant C4 is compared with.
length_too_short(blurhash, size_x, size_y) ==
    Len(blurhash) < 4 + 2 * size_x * size_y

\* Whether the check "len(blurhash) != 4 + 2 * size_x * size_y" raises.
length_mismatch(blurhash, size_x, size_y) ==
    Len(blurhash) # 4 + 2 * size_x * size_y

blurhash_decode(blurhash, width, height, punch, linear) ==
    IF Len(blurhash) < 6
    THEN DecodeFrame(InvalidHashLength, 0, 0, 0, <<>>, <<>>)
    ELSE IF blurhash[1] \notin Symbols \/ blurhash[2] \notin Symbols
    THEN DecodeFrame(InvalidSymbol, 0, 0, 0, <<>>, <<>>)
    ELSE
    LET size_info       == base83_decode(<<blurhash[1]>>)
        size_y          == size_y_of(size_info)
        size_x          == size_x_of(size_info)
        quant_max_value == base83_decode(<<blurhash[2]>>)
        real_max_value  == real_max_value_of(quant_max_value, punch)
    IN  IF length_mismatch(blurhash, size_x, size_y)
        THEN DecodeFrame(InvalidHashLength, size_x, size_y, real_max_value,
                         <<>>, <<>>)
        ELSE
        LET dec == decode_colours(blurhash, size_x, size_y, real_max_value)
            pixels ==
                [y \in 1..height |-> [x \in 1..width |->
                    LET pixel == pixel_at(dec.colours, size_x, size_y,
                                          (x - 1) * Scale, (y - 1) * Scale,
                                          width, height)
                    IN  IF linear THEN pixel ELSE to_srgb(pixel)]]
        IN  IF dec.err # NoError
            THEN DecodeFrame(dec.err, size_x, size_y, real_max_value,
                             dec.colours, <<>>)
            ELSE DecodeFrame(NoError, size_x, size_y, real_max_value,
                             dec.colours, pixels)

(***************************************************************************)
(* The swatch decoder.                                                     *)
(***************************************************************************)
\* row and column of the 1-based tile index c.
tile_row(c, size_x) == -((-c) \div size_x)

tile_column(c, size_x) == IF c % size_x # 0 THEN c % size_x ELSE size_x

\* The float x (or y) of a tile: extent is width (height), size is size_x
\* (size_y), index is column (row).
tile_centre(extent, size, index) ==
    LET column_width == FDivInt(extent, size)
    IN  FAdd(FHalve(column_width), FMulInt(column_width, index - 1))

\* The element one iteration of the outer loop appends, for the value i the
\* for statement assigned.
fake_element(colours, size_x, size_y, width, height, i) ==
    LET c      == i + 1
        row    == tile_row(c, size_x)
        column == tile_column(c, size_x)
        x      == tile_centre(width, size_x, column)
        y      == tile_centre(height, size_y, row)
        pixel  == pixel_at(colours, size_x, size_y, FToFixed(x), FToFixed(y),
                           width, height)
    IN  <<FInt(x), FInt(y), to_srgb(pixel)>>

\* The outer loop "for i in range(size_x * size_y)".  next is the position
\* of the range iterator and i the loop variable, which the inner loop
\* "for i in range(size_x)" leaves at size_x - 1; the for statement assigns
\* the iterator's next value to i whatever its value was.
RECURSIVE fake_elements(_, _, _, _, _, _, _, _)
fake_elements(colours, size_x, size_y, width, height, next, i, elements) ==
    IF next >= size_x * size_y
    THEN elements
    ELSE fake_elements(colours, size_x, size_y, width, height,
                       next + 1,
                       size_x - 1,
                       Append(elements,
                              fake_element(colours, size_x, size_y,
                                           width, height, next)))

blurhash_fake_decode(blurhash, width, height, punch) ==
    LET comps == blurhash_components(blurhash)
    IN  IF comps.err # NoError
        THEN DecodeFrame(comps.err, 0, 0, 0, <<>>, <<>>)
        ELSE
        LET size_x == comps.val[1]
            size_y == comps.val[2]
        IN  IF Len(blurhash) < 2
            THEN DecodeFrame(IndexError, size_x, size_y, 0, <<>>, <<>>)
            ELSE IF blurhash[2] \notin Symbols
            THEN DecodeFrame(InvalidSymbol, size_x, size_y, 0, <<>>, <<>>)
            ELSE
            LET quant_max_value == base83_decode(<<blurhash[2]>>)
                real_max_value  == real_max_value_of(quant_max_value, punch)
            IN  IF length_mismatch(blurhash, size_x, size_y)
                THEN DecodeFrame(InvalidHashLength, size_x, size_y,
                                 real_max_value, <<>>, <<>>)
                ELSE
                LET dec == decode_colours(blurhash, size_x, size_y,
                                          real_max_value)
                IN  IF dec.err # NoError
                    THEN DecodeFrame(dec.err, size_x, size_y, real_max_value,
                                     dec.colours, <<>>)
                    ELSE DecodeFrame(NoError, size_x, size_y, real_max_value,
                                     dec.colours,
                                     fake_elements(dec.colours, size_x, size_y,
                                                   width, height, 0, 0, <<>>))

(***************************************************************************)
(* The encoder.  An image is a sequence of rows, a row a sequence of       *)
(* pixels, a pixel a triple: of sRGB bytes, or of fixed-point linear       *)
(* values when linear is TRUE.                                             *)
(***************************************************************************)
EncodeFrame(err, components, quant_max_ac_component, dc_value, ac_values, val) ==
    [err |-> err, components |-> components,
     quant_max_ac_component |-> quant_max_ac_component,
     dc_value |-> dc_value, ac_values |-> ac_values, val |-> val]

\* The check on the component counts had its upper limit been 10: the
\* variant C6 is compared with.
component_count_above_ten(components_x, components_y) ==
    components_x < 1 \/ components_x > 10 \/ components_y < 1 \/ components_y > 10

\* Whether the check on the component counts raises.
component_count_invalid(components_x, components_y) ==
    components_x < 1 \/ components_x > 9 \/ components_y < 1 \/ components_y > 9

\* The list components: for each (j, i), j outer, the three channel sums
\* over the pixels divided by width * height.
encode_components(image_linear, width, height, components_x, components_y) ==
    LET cos_x == [i \in 0..(components_x - 1) |->
                    [x \in 0..(width - 1) |-> cos_pi((i * x * Scale) \div width)]]
        cos_y == [j \in 0..(components_y - 1) |->
                    [y \in 0..(height - 1) |-> cos_pi((j * y * Scale) \div height)]]
        basis(i, j, x, y) ==
            LET norm_factor == IF i = 0 /\ j = 0 THEN 1 ELSE 2
            IN  MulFx(norm_factor * cos_x[i][x], cos_y[j][y])
        channel(i, j, ch) ==
            SeqSum([p \in 1..(width * height) |->
                      LET x == (p - 1) % width
                          y == (p - 1) \div width
                      IN  MulFx(basis(i, j, x, y), image_linear[y + 1][x + 1][ch])])
                \div (width * height)
    IN  [k \in 1..(components_x * components_y) |->
            [ch \in 1..3 |->
                channel((k - 1) % components_x, (k - 1) \div components_x, ch)]]

\* max_ac_component after the loops.
max_ac_component_of(components) ==
    SeqMax([k \in 1..(Len(components) - 1) |->
              Max(Abs(components[k + 1][1]),
                  Max(Abs(components[k + 1][2]), Abs(components[k + 1][3])))])

\* quant_max_ac_component without the clamp "min(82, .)": the variant C3 is
\* compared with.
quant_max_unclamped(max_ac_component) ==
    Max(0, (max_ac_component * 166 * 2 - Scale) \div (2 * Scale))

\* int(max(0, min(82, math.floor(max_ac_component * 166 - 0.5))))
quant_max_of(max_ac_component) ==
    Max(0, Min(82, (max_ac_component * 166 * 2 - Scale) \div (2 * Scale)))

\* int(max(0.0, min(18.0, math.floor(sign_pow(v / norm, 0.5) * 9.0 + 9.5))))
ac_index(v, ac_component_norm_factor) ==
    LET root == sign_pow(DivFx(v, ac_component_norm_factor), ExpHalf)
    IN  Max(0, Min(18, (root * 18 + 19 * Scale) \div (2 * Scale)))

ac_value_of(component, ac_component_norm_factor) ==
    ac_index(component[1], ac_component_norm_factor) * 19 * 19
        + ac_index(component[2], ac_component_norm_factor) * 19
        + ac_index(component[3], ac_component_norm_factor)

\* The size flag with the two counts exchanged: the variant C2 is compared
\* with.
size_flag_exchanged(components_x, components_y) ==
    (components_y - 1) + (components_x - 1) * 9

\* The value of the first character of the hash.
size_flag_of(components_x, components_y) ==
    (components_x - 1) + (components_y - 1) * 9

blurhash_encode(image, components_x, components_y, linear) ==
    IF component_count_invalid(components_x, components_y)
    THEN EncodeFrame(InvalidComponentCount, <<>>, 0, 0, <<>>, <<>>)
    ELSE IF Len(image) = 0
    THEN EncodeFrame(IndexError, <<>>, 0, 0, <<>>, <<>>)
    ELSE IF Len(image[1]) = 0
    THEN EncodeFrame(ZeroDivisionError, <<>>, 0, 0, <<>>, <<>>)
    ELSE
    LET height == Len(image)
        width  == Len(image[1])
        image_linear ==
            IF ~linear
            THEN [y \in 1..height |-> [x \in 1..width |->
                    [ch \in 1..3 |-> srgb_to_linear(image[y][x][ch])]]]
            ELSE image
        components == encode_components(image_linear, width, height,
                                        components_x, components_y)
        dc_value == linear_to_srgb(components[1][1]) * 65536
                        + linear_to_srgb(components[1][2]) * 256
                        + linear_to_srgb(components[1][3])
        quant_max_ac_component == quant_max_of(max_ac_component_of(components))
        ac_component_norm_factor == ((quant_max_ac_component + 1) * Scale) \div 166
        ac_values == [k \in 1..(Len(components) - 1) |->
                        ac_value_of(components[k + 1], ac_component_norm_factor)]
        parts == <<base83_encode(size_flag_of(components_x, components_y), 1),
                   base83_encode(quant_max_ac_component, 1),
                   base83_encode(dc_value, 4)>>
                     \o [k \in 1..Len(ac_values) |-> base83_encode(ac_values[k], 2)]
        overflow == \E k \in 1..Len(parts) : parts[k].err # NoError
        blurhash == Concat([k \in 1..Len(parts) |-> parts[k].val])
    IN  IF overflow
        THEN EncodeFrame(EncodingOverflow, components, quant_max_ac_component,
                         dc_value, ac_values, <<>>)
        ELSE EncodeFrame(NoError, components, quant_max_ac_component,
                         dc_value, ac_values, blurhash)

(***************************************************************************)
(* The calls the model makes.                                              *)
(***************************************************************************)
\* Hashes are made of at most MaxHashLength characters.
MaxHashLength == 24
\* The decoders are asked for grids of 1..MaxWidth by 1..MaxHeight.
MaxWidth == 6
MaxHeight == 2
\* The encoder is given images of 0..MaxImage by 0..MaxImage pixels and
\* component counts 0..MaxComponents.
MaxImage == 2
MaxComponents == 10

\* A character outside the alphabet.
BadChar == "!"

Values ==
    {v \in (0..MaxValue) \cup {Pow83(k) + d : k \in 1..MaxLength,
                                               d \in (-MaxValue)..MaxValue} :
        v >= 0}

DecodeChars == {"0", "1", "Z", "~", BadChar}

DecodeStrings == UNION {[1..n -> DecodeChars] : n \in 0..MaxLength}

\* The linear values linear_to_srgb is called with: around each value that
\* srgb_to_linear returns, and outside [0, 1].
LinearValues ==
    {srgb_to_linear(b) + d : b \in 0..255, d \in {-1, 0, 1}} \cup {-Scale, 2 * Scale}

\* The characters after the first of the hashes the model decodes: the
\* quantised maximum, the DC characters (the same four times) and the AC
\* pair (the same for every component).
HashBody(second, dc, a, b) == [second |-> second, dc |-> dc, a |-> a, b |-> b]

HashBodies ==
    {HashBody("0", "0", "0", "0"),
     HashBody("A", "F", "K", "t"),
     HashBody("~", "S", "~", "~"),
     HashBody("L", "9", "L", BadChar),
     HashBody(BadChar, "0", "0", "0")}

MkHash(first, body, len) ==
    [k \in 1..len |->
        IF k = 1 THEN first
        ELSE IF k = 2 THEN body.second
        ELSE IF k <= 6 THEN body.dc
        ELSE IF k % 2 = 1 THEN body.a ELSE body.b]

FirstChars == Symbols \cup {BadChar}

Hashes ==
    {MkHash(first, body, len) :
        first \in FirstChars, body \in HashBodies, len \in 0..MaxHashLength}

\* The length the first character of a hash declares.
DeclaredLength(first) ==
    LET size_info == alphabet_values[first]
    IN  4 + 2 * size_x_of(size_info) * size_y_of(size_info)

\* The hashes of Hashes that have the length their first character declares.
SizedHashes ==
    {MkHash(first, body, DeclaredLength(first)) :
        first \in {c \in Symbols : DeclaredLength(c) <= MaxHashLength},
        body \in HashBodies}

\* punch: 1.0 (the default) and 2.0.
Punches == {Scale, 2 * Scale}

\* The two colours of the images the model encodes, with the value of
\* linear they are passed with: sRGB bytes, or fixed-point linear values
\* (some outside [0, 1]) when linear is TRUE.
Pattern(linear, p, q) == [linear |-> linear, p |-> p, q |-> q]

Patterns ==
    {Pattern(FALSE, 0, 0), Pattern(FALSE, 128, 128), Pattern(FALSE, 0, 255),
     Pattern(FALSE, 255, 64),
     Pattern(TRUE, 0, (3 * Scale) \div 2), Pattern(TRUE, Scale, Scale \div 4)}

\* The image of height by width pixels with two colours in a chequerboard.
MkImage(height, width, p, q) ==
    [y \in 1..height |-> [x \in 1..width |->
        IF (x + y) % 2 = 0 THEN <<p, q, p>> ELSE <<q, p, q>>]]

Base83EncodeArgs == [value : Values, length : 1..MaxLength]

Base83DecodeArgs == [base83_str : DecodeStrings]

SrgbToLinearArgs == [value : 0..255]

LinearToSrgbArgs == [value : LinearValues]

ComponentsArgs == [blurhash : Hashes]

\* The arguments of the decoders: every hash with the default punch (and
\* linear) for a grid of one pixel, and every hash of the declared length
\* with every grid, punch and linear.
DecodeArgs ==
    [blurhash : Hashes, width : {1}, height : {1}, punch : {Scale},
     linear : {FALSE}]
        \cup [blurhash : SizedHashes, width : 1..MaxWidth, height : 1..MaxHeight,
              punch : Punches, linear : BOOLEAN]

FakeDecodeArgs ==
    [blurhash : Hashes, width : {1}, height : {1}, punch : {Scale}]
        \cup [blurhash : SizedHashes, width : 1..MaxWidth, height : 1..MaxHeight,
              punch : Punches]

EncodeArgs ==
    {[image |-> MkImage(height, width, pat.p, pat.q),
      components_x |-> components_x, components_y |-> components_y,
      linear |-> pat.linear] :
        height \in 0..MaxImage, width \in 0..MaxImage, pat \in Patterns,
        components_x \in 0..MaxComponents, components_y \in 0..MaxComponents}

(***************************************************************************)
(* The state machine.  The functions share no state, so a behaviour is one *)
(* call: the initial state holds the operation and its arguments, and the  *)
(* operation's action runs it to its return or raise.                      *)
(***************************************************************************)
VARIABLES pc, op, args, ret

vars == <<pc, op, args, ret>>

Calling(name, argset) ==
    /\ pc = "call"
    /\ op = name
    /\ args \in argset
    /\ ret = <<>>

Base83Encode ==
    /\ pc = "call" /\ op = "base83_encode"
    /\ ret' = base83_encode(args.value, args.length)
    /\ pc' = "done"
    /\ UNCHANGED <<op, args>>

Base83Decode ==
    /\ pc = "call" /\ op = "base83_decode"
    /\ ret' = IF AllSymbols(args.base83_str)
              THEN Return(base83_decode(args.base83_str))
              ELSE Raise(InvalidSymbol)
    /\ pc' = "done"
    /\ UNCHANGED <<op, args>>

SrgbToLinear ==
    /\ pc = "call" /\ op = "srgb_to_linear"
    /\ ret' = Return(srgb_to_linear(args.value))
    /\ pc' = "done"
    /\ UNCHANGED <<op, args>>

LinearToSrgb ==
    /\ pc = "call" /\ op = "linear_to_srgb"
    /\ ret' = Return(linear_to_srgb(args.value))
    /\ pc' = "done"
    /\ UNCHANGED <<op, args>>

Components ==
    /\ pc = "call" /\ op = "blurhash_components"
    /\ ret' = blurhash_components(args.blurhash)
    /\ pc' = "done"
    /\ UNCHANGED <<op, args>>

Decode ==
    /\ pc = "call" /\ op = "blurhash_decode"
    /\ ret' = blurhash_decode(args.blurhash, args.width, args.height,
                              args.punch, args.linear)
    /\ pc' = "done"
    /\ UNCHANGED <<op, args>>

FakeDecode ==
    /\ pc = "call" /\ op = "blurhash_fake_decode"
    /\ ret' = blurhash_fake_decode(args.blurhash, args.width, args.height,
                                   args.punch)
    /\ pc' = "done"
    /\ UNCHANGED <<op, args>>

Encode ==
    /\ pc = "call" /\ op = "blurhash_encode"
    /\ ret' = blurhash_encode(args.image, args.components_x, args.components_y,
                              args.linear)
    /\ pc' = "done"
    /\ UNCHANGED <<op, args>>

Init ==
    \/ Calling("base83_encode", Base83EncodeArgs)
    \/ Calling("base83_decode", Base83DecodeArgs)
    \/ Calling("srgb_to_linear", SrgbToLinearArgs)
    \/ Calling("linear_to_srgb", LinearToSrgbArgs)
    \/ Calling("blurhash_components", ComponentsArgs)
    \/ Calling("blurhash_decode", DecodeArgs)
    \/ Calling("blurhash_fake_decode", FakeDecodeArgs)
    \/ Calling("blurhash_encode", EncodeArgs)

Next ==
    \/ Base83Encode
    \/ Base83Decode
    \/ SrgbToLinear
    \/ LinearToSrgb
    \/ Components
    \/ Decode
    \/ FakeDecode
    \/ Encode

Spec == Init /\ [][Next]_vars

\* The base-83 codec alone.
InitBase83 ==
    \/ Calling("base83_encode", Base83EncodeArgs)
    \/ Calling("base83_decode", Base83DecodeArgs)

NextBase83 ==
    \/ Base83Encode
    \/ Base83Decode

SpecBase83 == InitBase83 /\ [][NextBase83]_vars

\* The colour conversions alone.
InitColour ==
    \/ Calling("srgb_to_linear", SrgbToLinearArgs)
    \/ Calling("linear_to_srgb", LinearToSrgbArgs)

NextColour ==
    \/ SrgbToLinear
    \/ LinearToSrgb

SpecColour == InitColour /\ [][NextColour]_vars

\* The dense decoder alone.
InitDecode == Calling("blurhash_decode", DecodeArgs)

SpecDecode == InitDecode /\ [][Decode]_vars

\* The swatch decoder alone.
InitFakeDecode == Calling("blurhash_fake_decode", FakeDecodeArgs)

SpecFakeDecode == InitFakeDecode /\ [][FakeDecode]_vars

\* The encoder alone.
InitEncode == Calling("blurhash_encode", EncodeArgs)

SpecEncode == InitEncode /\ [][Encode]_vars

(***************************************************************************)
(* The base-83 codec.                                                      *)
(***************************************************************************)
Returned(name) == pc = "done" /\ op = name

\* C1: for every length n >= 1 and every v with 0 <= v < 83^n,
\* base83_encode(v, n) returns n alphabet characters, the most significant
\* digit first, and base83_decode of them is v (so base83_encode is
\* injective on [0, 83^n)).
C1_Base83RoundTrip ==
    (Returned("base83_encode") /\ args.value < Pow83(args.length)) =>
        /\ ret.err = NoError
        /\ Len(ret.val) = args.length
        /\ AllSymbols(ret.val)
        /\ alphabet_values[ret.val[1]] = args.value \div Pow83(args.length - 1)
        /\ base83_decode(ret.val) = args.value

C1_Witness ==
    /\ Returned("base83_encode")
    /\ args.length = 2
    /\ args.value = 83 * 83 - 1
    /\ ret.val = <<"~", "~">>
    /\ base83_decode(ret.val) = args.value

(***************************************************************************)
(* The colour conversions.                                                 *)
(***************************************************************************)
\* C8: linear_to_srgb(srgb_to_linear(b)) = b for every byte b in 0..255.
C8_SrgbRoundTrip ==
    Returned("srgb_to_linear") => linear_to_srgb(ret.val) = args.value

C8_Witness ==
    /\ Returned("srgb_to_linear")
    /\ args.value = 128
    /\ ret.val > 0
    /\ linear_to_srgb(ret.val) = 128

(***************************************************************************)
(* The encoder.                                                            *)
(***************************************************************************)
CountsValid == args.components_x \in 1..9 /\ args.components_y \in 1..9

ImageNonEmpty == Len(args.image) >= 1 /\ Len(args.image[1]) >= 1

\* C2: blurhash_components of the token blurhash_encode returns for
\* components_x, components_y in 1..9 is (components_x, components_y).
C2_ComponentsOfEncoded ==
    (Returned("blurhash_encode") /\ CountsValid /\ ret.err = NoError) =>
        blurhash_components(ret.val)
            = Return(<<args.components_x, args.components_y>>)

C2_Witness ==
    /\ Returned("blurhash_encode")
    /\ args.components_x = 4
    /\ args.components_y = 3
    /\ ret.err = NoError
    /\ blurhash_components(ret.val).val = <<4, 3>>

\* C3: for an image of at least 1 by 1 pixels and components_x,
\* components_y in 1..9, blurhash_encode raises nothing: the size flag,
\* the quantised maximum, the DC value and every AC value fit their 1, 1, 4
\* and 2 digits; the token has 4 + 2 * components_x * components_y
\* characters and passes the length checks of blurhash_decode.
C3_EncodeFits ==
    (Returned("blurhash_encode") /\ CountsValid /\ ImageNonEmpty) =>
        /\ ret.err = NoError
        /\ size_flag_of(args.components_x, args.components_y) \in 0..(Pow83(1) - 1)
        /\ ret.quant_max_ac_component \in 0..(Pow83(1) - 1)
        /\ ret.dc_value \in 0..(Pow83(4) - 1)
        /\ Len(ret.ac_values) = args.components_x * args.components_y - 1
        /\ \A k \in 1..Len(ret.ac_values) :
              ret.ac_values[k] \in 0..(Pow83(2) - 1)
        /\ Len(ret.val) = 4 + 2 * args.components_x * args.components_y
        /\ blurhash_decode(ret.val, 1, 1, Scale, FALSE).err = NoError

C3_Witness ==
    /\ Returned("blurhash_encode")
    /\ args.components_x = 9
    /\ args.components_y = 9
    /\ Len(args.image) = 2
    /\ Len(args.image[1]) = 2
    /\ ret.err = NoError
    /\ Len(ret.val) = 166
    /\ \E k \in 1..Len(ret.ac_values) : ret.ac_values[k] \div (19 * 19) = 18

\* C6: blurhash_encode raises InvalidComponentCount whenever components_x
\* or components_y is outside 1..9, before it reads the image or computes a
\* coefficient, and never when both are in 1..9.
C6_ComponentCountChecked ==
    Returned("blurhash_encode") =>
        IF CountsValid
        THEN ret.err # InvalidComponentCount
        ELSE /\ ret.err = InvalidComponentCount
             /\ ret.components = <<>>
             /\ ret.val = <<>>

C6_Witness ==
    /\ Returned("blurhash_encode")
    /\ args.components_x = 10
    /\ args.components_y = 1
    /\ args.image = <<>>
    /\ ret.err = InvalidComponentCount

(***************************************************************************)
(* The dense decoder.                                                      *)
(***************************************************************************)
\* The hash has at least 6 characters, its first two are alphabet symbols
\* and its length is not the one its first character declares.
LengthMismatched(blurhash) ==
    /\ Len(blurhash) >= 6
    /\ blurhash[1] \in Symbols
    /\ blurhash[2] \in Symbols
    /\ Len(blurhash) # DeclaredLength(blurhash[1])

\* C4: blurhash_decode raises InvalidHashLength, and returns no pixel grid,
\* for every hash of fewer than 6 characters and for every hash of at least
\* 6 characters whose first two characters are alphabet symbols and whose
\* length is not 4 + 2 * size_x * size_y for the sizes its first character
\* declares; no coefficient and no pixel has been computed by then.
C4_DecodeLengthChecked ==
    (/\ Returned("blurhash_decode")
     /\ Len(args.blurhash) < 6 \/ LengthMismatched(args.blurhash)) =>
        /\ ret.err = InvalidHashLength
        /\ ret.colours = <<>>
        /\ ret.val = <<>>

C4_Witness ==
    /\ Returned("blurhash_decode")
    /\ Len(args.blurhash) = 6
    /\ args.blurhash[1] = "1"
    /\ LengthMismatched(args.blurhash)
    /\ ret.err = InvalidHashLength
    /\ ret.size_x = 2
    /\ ret.colours = <<>>

(***************************************************************************)
(* The swatch decoder.                                                     *)
(***************************************************************************)
\* C5: blurhash_fake_decode raises InvalidHashLength, the error of the
\* dense decoder and no other kind of failure, for every hash of fewer than
\* 6 characters (those of 0 and 1 characters included) and for every hash
\* whose length is not the one its first character declares.
C5_FakeDecodeLengthChecked ==
    (/\ Returned("blurhash_fake_decode")
     /\ Len(args.blurhash) < 6 \/ LengthMismatched(args.blurhash)) =>
        ret.err = InvalidHashLength

\* C7: for a hash blurhash_fake_decode accepts, the result has
\* size_x * size_y entries in row-major order; the entry at the 0-based
\* position k is the tile of column (k mod size_x) + 1 and row
\* (k div size_x) + 1, and its centre is
\* (trunc(width * (2 * column - 1) / (2 * size_x)),
\*  trunc(height * (2 * row - 1) / (2 * size_y))), inside
\* [0, width) x [0, height).
C7_FakeDecodeCentres ==
    (Returned("blurhash_fake_decode") /\ ret.err = NoError) =>
        /\ Len(ret.val) = ret.size_x * ret.size_y
        /\ \A k \in 0..(Len(ret.val) - 1) :
              LET column == (k % ret.size_x) + 1
                  row    == (k \div ret.size_x) + 1
              IN  /\ ret.val[k + 1][1]
                        = (args.width * (2 * column - 1)) \div (2 * ret.size_x)
                  /\ ret.val[k + 1][2]
                        = (args.height * (2 * row - 1)) \div (2 * ret.size_y)
                  /\ ret.val[k + 1][1] \in 0..(args.width - 1)
                  /\ ret.val[k + 1][2] \in 0..(args.height - 1)

(***************************************************************************)
(* Both decoders and the metadata reader.                                  *)
(***************************************************************************)
Decoded == Returned("blurhash_decode") \/ Returned("blurhash_fake_decode")

\* C9: for every hash whose first character is an alphabet symbol, the
\* sizes blurhash_components returns are in 1..9, and so are the sizes of
\* every hash a decoder accepts.
C9_SizesAtMostNine ==
    /\ (/\ Returned("blurhash_components")
        /\ Len(args.blurhash) >= 1
        /\ args.blurhash[1] \in Symbols) =>
            /\ ret.err = NoError
            /\ ret.val[1] \in 1..9
            /\ ret.val[2] \in 1..9
    /\ (Decoded /\ ret.err = NoError) =>
            /\ ret.size_x \in 1..9
            /\ ret.size_y \in 1..9

\* C10: for every hash a decoder accepts, each AC pair decodes to an
\* integer in 0..(19 * 19 * 19 - 1), each of its three channel digits is in
\* 0..18, and every channel of every decoded AC coefficient has an absolute
\* value of at most real_max_value.
C10_AcWithinRealMax ==
    (Decoded /\ ret.err = NoError) =>
        \A c \in 1..(ret.size_x * ret.size_y - 1) :
            LET ac_value == base83_decode(ac_chars(args.blurhash, c))
            IN  /\ ac_value \in 0..(19 * 19 * 19 - 1)
                /\ \A ch \in 1..3 :
                      /\ ac_digits(ac_value)[ch] \in 0..18
                      /\ Abs(ret.colours[c + 1][ch]) <= ret.real_max_value

====
